---- MODULE Spec2Model ----
(***************************************************************************)
(* The news proxy of BrevityBackend.                                       *)
(*                                                                         *)
(* Two controllers forward news queries to the upstream provider:          *)
(*   - the retry-capable controller (src/middleware/auth.js, lines         *)
(*     110-389): makeNewsRequest drives up to `retries` upstream calls     *)
(*     with exponential backoff and User-Agent rotation;                   *)
(*   - the minimal controller (src/controllers/news.js): one upstream call *)
(*     per request.  Its definitions carry the prefix news_ .              *)
(*                                                                         *)
(* Every async function is cut at its awaits: a handler runs atomically up *)
(* to the upstream call it awaits, the settlement of that call runs the    *)
(* code up to the next await (the backoff timer, the next call) or to the  *)
(* response.                                                               *)
(***************************************************************************)
EXTENDS Integers, Sequences, FiniteSets, TLC

(***************************************************************************)
(* Bounds of the model.                                                    *)
(***************************************************************************)
\* successful upstream payloads are the JSON documents 1..MaxPayload
MaxPayload == 2
\* the calls of connectToDB in a run
MaxCalls == 4

(***************************************************************************)
(* Program constants.                                                      *)
(***************************************************************************)
\* makeNewsRequest = async (endpoint, params, retries = 3); no handler
\* passes a third argument
retries == 3
\* delay(Math.pow(2, attempt) * 1000)
backoffBase == 1000
\* const { page = 1, pageSize = 10 } = req.query
defaultPage == 1
defaultPageSize == 10
\* retryAfter: error.isCloudflareIssue ? 300 : 60
retryAfterBlocked == 300
retryAfterGeneric == 60

NEWS_API_KEY == "process.env.NEWS_API_KEY"

\* the concurrent logical fetches (inbound requests) of the model
Fetches == {"f1", "f2"}

(***************************************************************************)
(* JavaScript values.                                                      *)
(***************************************************************************)
\* a value of response.data / a query-string value that is not there
undefined == "undefined"

\* A body (response.data).  type is the result of typeof; text says whether
\* a string body is non-empty; marks are the substrings the code looks for
\* that the body contains; id tells successful payloads apart.
NoData == [type |-> "undefined", text |-> FALSE, marks |-> {}, id |-> 0]
JsonBody == [type |-> "object", text |-> TRUE, marks |-> {}, id |-> 0]
EmptyBody == [type |-> "string", text |-> FALSE, marks |-> {}, id |-> 0]
TextBody(marks) == [type |-> "string", text |-> TRUE, marks |-> marks, id |-> 0]
Payload(n) == [type |-> "object", text |-> TRUE, marks |-> {}, id |-> n]

\* String.prototype.includes on a body
includes(data, substring) == substring \in data.marks

\* JavaScript truthiness of a body
Truthy(data) ==
    \/ data.type = "object"
    \/ data.type = "string" /\ data.text

(***************************************************************************)
(* What one upstream call (newsApiClient.get) can settle with.             *)
(*   ok          the promise resolved (2xx): response.data is data         *)
(*   hasResponse error.response is set (the upstream answered non-2xx)     *)
(*   code        error.code                                                *)
(*   message     error.message                                             *)
(***************************************************************************)
Success(n) ==
    [ok |-> TRUE, hasResponse |-> TRUE, status |-> 200, data |-> Payload(n),
     code |-> "", message |-> ""]

HttpError(status, data) ==
    [ok |-> FALSE, hasResponse |-> TRUE, status |-> status, data |-> data,
     code |-> IF status >= 500 THEN "ERR_BAD_RESPONSE" ELSE "ERR_BAD_REQUEST",
     message |-> "Request failed with status code " \o ToString(status)]

NetworkError(code, message) ==
    [ok |-> FALSE, hasResponse |-> FALSE, status |-> 0, data |-> NoData,
     code |-> code, message |-> message]

Timeout == NetworkError("ECONNABORTED", "timeout of 30000ms exceeded")
ConnectionReset == NetworkError("ECONNRESET", "read ECONNRESET")
DnsFailure == NetworkError("ENOTFOUND", "getaddrinfo ENOTFOUND newsapi.org")
\* an error object without code and with an empty message
Unexplained == NetworkError(undefined, "")

\* the failures the upstream produces in the model
Failures ==
    { HttpError(400, JsonBody),
      HttpError(401, JsonBody),
      HttpError(403, JsonBody),
      HttpError(403, TextBody({"cloudflare"})),
      HttpError(403, TextBody({"Just a moment"})),
      HttpError(429, JsonBody),
      HttpError(429, TextBody({})),
      HttpError(500, JsonBody),
      HttpError(500, TextBody({})),
      HttpError(500, EmptyBody),
      HttpError(503, TextBody({"cloudflare"})),
      HttpError(503, TextBody({"Enable JavaScript and cookies"})),
      Timeout, ConnectionReset, DnsFailure, Unexplained }

Outcomes == { Success(n) : n \in 1..MaxPayload } \cup Failures

(***************************************************************************)
(* State.                                                                  *)
(***************************************************************************)
VARIABLES
    admitted,   \* the fetches that arrive in this run
    upstream,   \* which answers the upstream gives in this run: "any" of
                \* Outcomes, or only the "typical" ones
    pc,         \* per fetch: "idle", "get" (an upstream call is in flight),
                \* "delay" (suspended in the backoff timer), "done"
    req,        \* per fetch: the inbound request and the controller serving it
    attempt,    \* per fetch: the loop variable of makeNewsRequest
    calls,      \* per fetch: the upstream calls issued, in order
    outcomes,   \* per fetch: how the settled calls ended, in order
    delays,     \* per fetch: the backoff suspensions, in order: the attempt
                \* each one followed and its duration in ms
    settled,    \* per fetch: how makeNewsRequest ended (returned / threw)
    responses   \* per fetch: the responses the handler sent, in order

newsVars == <<admitted, upstream, pc, req, attempt, calls, outcomes, delays,
              settled, responses>>

\* The auth middlewares (src/middleware/auth.js, lines 1-109), per request.
VARIABLES
    mwPc,        \* "idle", "findById" (awaiting User.findById), "done"
    mwReq,       \* the middleware serving the request and its Authorization
                 \* header
    lookups,     \* how the awaited User.findById settled
    reqUser,     \* req.user
    nextCalls,   \* how many times next() was called
    mwResponses  \* the responses the middleware sent, in order

authVars == <<mwPc, mwReq, lookups, reqUser, nextCalls, mwResponses>>

\* connectToDB (src/unnamed/part_001).
VARIABLES
    uri,         \* process.env.MONGODB_URI
    readyState,  \* mongoose.connection.readyState: 0 disconnected,
                 \* 1 connected, 2 connecting
    connPromise, \* the module variable: 0 for null, else the number of the
                 \* promise it holds
    promises,    \* the promise chains connectToDB created, in order
    dbCalls      \* what each call of connectToDB returned, in order

dbVars == <<uri, readyState, connPromise, promises, dbCalls>>

\* the state no step of a news handler writes
elsewhere == <<upstream, authVars, dbVars>>

vars == <<newsVars, authVars, dbVars>>

\* the answers of a run in which two fetches are interleaved
TypicalOutcomes ==
    { Success(1), HttpError(429, TextBody({})), HttpError(401, JsonBody) }

\* what an upstream call can settle with in this run
Answers ==
    IF upstream = "any" THEN Outcomes ELSE TypicalOutcomes

(***************************************************************************)
(* The retry-capable controller: pure helpers.                             *)
(***************************************************************************)
\* the axios instance: its default User-Agent header and its timeout
newsApiClient ==
    [userAgent |-> "Mozilla/5.0 (Windows NT 10.0; Win64; x64) AppleWebKit/537.36 (KHTML, like Gecko) Chrome/91.0.4472.124 Safari/537.36",
     timeout |-> 30000]

userAgents ==
    << "Mozilla/5.0 (Windows NT 10.0; Win64; x64) AppleWebKit/537.36 (KHTML, like Gecko) Chrome/91.0.4472.124 Safari/537.36",
       "Mozilla/5.0 (Macintosh; Intel Mac OS X 10_15_7) AppleWebKit/537.36 (KHTML, like Gecko) Chrome/91.0.4472.124 Safari/537.36",
       "Mozilla/5.0 (X11; Linux x86_64) AppleWebKit/537.36 (KHTML, like Gecko) Chrome/91.0.4472.124 Safari/537.36",
       "Mozilla/5.0 (Windows NT 10.0; Win64; x64; rv:89.0) Gecko/20100101 Firefox/89.0",
       "Mozilla/5.0 (Macintosh; Intel Mac OS X 10.15; rv:89.0) Gecko/20100101 Firefox/89.0" >>

\* a rotation that starts one entry too early: userAgents[(attempt - 2) % n]
getUserAgent_offByOne(n) ==
    userAgents[((n + Len(userAgents) - 2) % Len(userAgents)) + 1]

\* userAgents[(attempt - 1) % userAgents.length], the array being 0-based
getUserAgent(n) ==
    userAgents[((n - 1) % Len(userAgents)) + 1]

\* headers: attempt > 1 ? {'User-Agent': getUserAgent(attempt)} : {}, merged
\* over the defaults of the axios instance
requestUserAgent(n) ==
    IF n > 1 THEN getUserAgent(n) ELSE newsApiClient.userAgent

\* { ...params, apiKey: NEWS_API_KEY }
requestParams(params) ==
    [apiKey |-> NEWS_API_KEY] @@ params

\* error.response?.status (0 stands for undefined)
responseStatus(error) ==
    IF error.hasResponse THEN error.status ELSE 0

\* a backoff condition that also takes every error without a response
isTransientBlock_anyNetworkError(error) ==
    \/ responseStatus(error) = 403
    \/ responseStatus(error) = 429
    \/ ~error.hasResponse
    \/ /\ error.hasResponse
       /\ Truthy(error.data)
       /\ error.data.type = "string"
       /\ includes(error.data, "cloudflare")

\* the condition of the backoff branch
isTransientBlock(error) ==
    \/ responseStatus(error) = 403
    \/ responseStatus(error) = 429
    \/ error.code = "ECONNRESET"
    \/ /\ error.hasResponse
       /\ Truthy(error.data)
       /\ error.data.type = "string"
       /\ includes(error.data, "cloudflare")

\* the backoff guard written attempt <= retries
attemptsRemain_inclusive(n) ==
    n <= retries

\* attempt < retries
attemptsRemain(n) ==
    n < retries

\* the throw guard written attempt > retries
isLastAttempt_late(n) ==
    n > retries

\* attempt === retries
isLastAttempt(n) ==
    n = retries

\* the loop condition attempt <= retries
loopContinues(n) ==
    n <= retries

\* a backoff that starts at 2^0: Math.pow(2, attempt - 1) * 1000
waitTime_fromZero(n) ==
    (2 ^ (n - 1)) * backoffBase

\* Math.pow(2, attempt) * 1000
waitTime(n) ==
    (2 ^ n) * backoffBase

isCloudflareError(error) ==
    IF ~error.hasResponse
    THEN FALSE
    ELSE IF error.data.type = "string"
         THEN \/ includes(error.data, "cloudflare")
              \/ includes(error.data, "Just a moment")
              \/ includes(error.data, "Enable JavaScript and cookies")
         ELSE error.status = 403 \/ error.status = 429

getErrorMessage(error) ==
    IF isCloudflareError(error)
    THEN "News service is temporarily blocking requests. This usually resolves automatically. Please try again in a few minutes."
    ELSE CASE responseStatus(error) = 400 -> "Invalid request parameters"
           [] responseStatus(error) = 401 -> "Invalid API key"
           [] responseStatus(error) = 429 -> "Rate limit exceeded. Please try again later."
           [] responseStatus(error) = 500 -> "News service is temporarily unavailable"
           [] OTHER -> IF error.message # "" THEN error.message
                       ELSE "Unknown error occurred"

\* a throw that drops the upstream status: status: 500
classifiedError_statusLost(error) ==
    [status |-> 500,
     message |-> getErrorMessage(error),
     isCloudflareIssue |-> isCloudflareError(error)]

\* the object makeNewsRequest throws
classifiedError(error) ==
    [status |-> IF responseStatus(error) # 0 THEN responseStatus(error) ELSE 500,
     message |-> getErrorMessage(error),
     isCloudflareIssue |-> isCloudflareError(error)]

\* parseInt of a query-string value, after the destructuring default
parseInt(value, default) ==
    CASE value = undefined -> default
      [] value = "1" -> 1
      [] value = "2" -> 2
      [] value = "5" -> 5
      [] value = "10" -> 10

\* the check written query === undefined
isFalsy_undefinedOnly(value) ==
    value = undefined

\* !query
isFalsy(value) ==
    value = undefined \/ value = ""

\* the query strings of the model: ?page=&pageSize=
QueryInputs ==
    { [page |-> undefined, pageSize |-> undefined],
      [page |-> "2", pageSize |-> "5"] }

\* the values of ?q=
SearchInputs == {undefined, "", "climate"}

\* the values of :category
CategoryInputs == {"sports", "technology"}

(***************************************************************************)
(* Initial state: no request has arrived.  One fetch arrives in Spec.      *)
(***************************************************************************)
NoRequest ==
    [controller |-> "none", handler |-> "none", label |-> "",
     endpoint |-> "", params |-> <<>>, q |-> undefined]

Quiet ==
    /\ pc = [f \in Fetches |-> "idle"]
    /\ req = [f \in Fetches |-> NoRequest]
    /\ attempt = [f \in Fetches |-> 0]
    /\ calls = [f \in Fetches |-> <<>>]
    /\ outcomes = [f \in Fetches |-> <<>>]
    /\ delays = [f \in Fetches |-> <<>>]
    /\ settled = [f \in Fetches |-> <<>>]
    /\ responses = [f \in Fetches |-> <<>>]

\* the requests that pass through an auth middleware
Requests == {"r1", "r2"}

\* req.user before any middleware has assigned it
Unset == [kind |-> "unset", id |-> "", emailVerified |-> FALSE,
          password |-> FALSE]

\* req.user = null, and the result of a lookup that finds nothing
Null == [kind |-> "null", id |-> "", emailVerified |-> FALSE,
         password |-> FALSE]

\* no lookup has settled yet
NoLookup == [settled |-> FALSE, ok |-> FALSE, user |-> Null, name |-> ""]

AuthQuiet ==
    /\ mwPc = [r \in Requests |-> "idle"]
    /\ mwReq = [r \in Requests |-> [middleware |-> "none", header |-> undefined]]
    /\ lookups = [r \in Requests |-> NoLookup]
    /\ reqUser = [r \in Requests |-> Unset]
    /\ nextCalls = [r \in Requests |-> 0]
    /\ mwResponses = [r \in Requests |-> <<>>]

\* the module after load: no connection, connPromise = null
DbClosed ==
    /\ readyState = 0
    /\ connPromise = 0
    /\ promises = <<>>
    /\ dbCalls = <<>>

DbQuiet ==
    /\ uri = "mongodb://db/brevity"
    /\ DbClosed

Init ==
    /\ admitted = {"f1"}
    /\ upstream = "any"
    /\ Quiet
    /\ AuthQuiet
    /\ DbQuiet

\* two fetches arrive, in any order and interleaving
InitPair ==
    /\ admitted = Fetches
    /\ upstream = "typical"
    /\ Quiet
    /\ AuthQuiet
    /\ DbQuiet

(***************************************************************************)
(* The retry-capable controller: makeNewsRequest, cut at its awaits.       *)
(***************************************************************************)
\* the API key sent on the first attempt only
IssueGet_retryWithoutKey(f, n, endpoint, params) ==
    /\ attempt' = [attempt EXCEPT ![f] = n]
    /\ calls' = [calls EXCEPT ![f] =
                    Append(@, [endpoint |-> endpoint,
                               params |-> IF n = 1 THEN requestParams(params)
                                          ELSE params,
                               userAgent |-> requestUserAgent(n)])]
    /\ pc' = [pc EXCEPT ![f] = "get"]

\* the loop variable declared once for the module, shared by all fetches
IssueGet_sharedAttempt(f, n, endpoint, params) ==
    /\ attempt' = [g \in Fetches |-> n]
    /\ calls' = [calls EXCEPT ![f] =
                    Append(@, [endpoint |-> endpoint,
                               params |-> requestParams(params),
                               userAgent |-> requestUserAgent(n)])]
    /\ pc' = [pc EXCEPT ![f] = "get"]

\* the try block up to `await newsApiClient.get(...)` on attempt n
IssueGet(f, n, endpoint, params) ==
    /\ attempt' = [attempt EXCEPT ![f] = n]
    /\ calls' = [calls EXCEPT ![f] =
                    Append(@, [endpoint |-> endpoint,
                               params |-> requestParams(params),
                               userAgent |-> requestUserAgent(n)])]
    /\ pc' = [pc EXCEPT ![f] = "get"]

\* res.json({success: true, data, timestamp}) of the handler's try block
RespondData(f, data) ==
    /\ settled' = [settled EXCEPT ![f] =
                      Append(@, [kind |-> "return", value |-> data])]
    /\ responses' = [responses EXCEPT ![f] =
                        Append(@, [status |-> 200, success |-> TRUE,
                                   data |-> data,
                                   timestamp |-> "toISOString"])]
    /\ pc' = [pc EXCEPT ![f] = "done"]

\* the two hints exchanged
retryAfter_swapped(error) ==
    IF error.isCloudflareIssue THEN retryAfterGeneric ELSE retryAfterBlocked

\* retryAfter: error.isCloudflareIssue ? 300 : 60
retryAfter(error) ==
    IF error.isCloudflareIssue THEN retryAfterBlocked ELSE retryAfterGeneric

\* the handler's catch block, error being what makeNewsRequest threw
RespondError(f, error) ==
    /\ settled' = [settled EXCEPT ![f] =
                      Append(@, [kind |-> "throw", value |-> error])]
    /\ responses' = [responses EXCEPT ![f] =
                        Append(@, [status |-> IF error.status # 0
                                              THEN error.status ELSE 500,
                                   success |-> FALSE,
                                   error |-> req[f].label,
                                   message |-> error.message,
                                   isCloudflareIssue |-> error.isCloudflareIssue,
                                   retryAfter |-> retryAfter(error)])]
    /\ pc' = [pc EXCEPT ![f] = "done"]

\* attempt++ and the loop test; leaving the loop returns undefined
NextIteration(f) ==
    IF loopContinues(attempt[f] + 1)
    THEN /\ IssueGet(f, attempt[f] + 1, req[f].endpoint, req[f].params)
         /\ UNCHANGED <<settled, responses>>
    ELSE /\ attempt' = [attempt EXCEPT ![f] = attempt[f] + 1]
         /\ RespondData(f, NoData)
         /\ UNCHANGED calls

\* a handler calls makeNewsRequest(endpoint, params): attempt 1 is issued
CallMakeNewsRequest(f, handler, label, endpoint, params, q) ==
    /\ req' = [req EXCEPT ![f] =
                  [controller |-> "retry", handler |-> handler,
                   label |-> label, endpoint |-> endpoint,
                   params |-> params, q |-> q]]
    /\ IssueGet(f, 1, endpoint, params)
    /\ UNCHANGED <<elsewhere, admitted, outcomes, delays, settled, responses>>

\* return response instead of return response.data
getResolve_wholeResponse(f) ==
    /\ pc[f] = "get"
    /\ req[f].controller = "retry"
    /\ \E o \in Answers :
          /\ o.ok
          /\ outcomes' = [outcomes EXCEPT ![f] = Append(@, o)]
          /\ RespondData(f, o)
    /\ UNCHANGED <<elsewhere, admitted, req, attempt, calls, delays>>

\* the upstream call resolves: return response.data; the handler responds
getResolve(f) ==
    /\ pc[f] = "get"
    /\ req[f].controller = "retry"
    /\ \E o \in Answers :
          /\ o.ok
          /\ outcomes' = [outcomes EXCEPT ![f] = Append(@, o)]
          /\ RespondData(f, o.data)
    /\ UNCHANGED <<elsewhere, admitted, req, attempt, calls, delays>>

\* delay(waitTime) without await: the next attempt starts with the timer
getReject_delayNotAwaited(f) ==
    /\ pc[f] = "get"
    /\ req[f].controller = "retry"
    /\ \E error \in Answers :
          /\ ~error.ok
          /\ outcomes' = [outcomes EXCEPT ![f] = Append(@, error)]
          /\ IF isTransientBlock(error) /\ attemptsRemain(attempt[f])
             THEN /\ delays' = [delays EXCEPT ![f] =
                                   Append(@, [after |-> attempt[f],
                                              ms |-> waitTime(attempt[f])])]
                  /\ NextIteration(f)
             ELSE IF isLastAttempt(attempt[f])
                  THEN /\ RespondError(f, classifiedError(error))
                       /\ UNCHANGED <<attempt, calls, delays>>
                  ELSE /\ NextIteration(f)
                       /\ UNCHANGED delays
    /\ UNCHANGED <<elsewhere, admitted, req>>

\* the upstream call rejects: the catch block of makeNewsRequest
getReject(f) ==
    /\ pc[f] = "get"
    /\ req[f].controller = "retry"
    /\ \E error \in Answers :
          /\ ~error.ok
          /\ outcomes' = [outcomes EXCEPT ![f] = Append(@, error)]
          /\ IF isTransientBlock(error) /\ attemptsRemain(attempt[f])
             THEN \* await delay(waitTime)
                  /\ delays' = [delays EXCEPT ![f] =
                                   Append(@, [after |-> attempt[f],
                                              ms |-> waitTime(attempt[f])])]
                  /\ pc' = [pc EXCEPT ![f] = "delay"]
                  /\ UNCHANGED <<attempt, calls, settled, responses>>
             ELSE IF isLastAttempt(attempt[f])
                  THEN \* throw {status, message, isCloudflareIssue}
                       /\ RespondError(f, classifiedError(error))
                       /\ UNCHANGED <<attempt, calls, delays>>
                  ELSE \* the catch block ends: the loop goes on
                       /\ NextIteration(f)
                       /\ UNCHANGED delays
    /\ UNCHANGED <<elsewhere, admitted, req>>

\* the backoff timer fires: continue
\* a timer whose callback never resumes the loop
delayResolve_lost(f) ==
    /\ pc[f] = "delay"
    /\ UNCHANGED vars

\* setTimeout fires: delay(waitTime) resolves, `continue` starts the next
\* iteration
delayResolve(f) ==
    /\ pc[f] = "delay"
    /\ NextIteration(f)
    /\ UNCHANGED <<elsewhere, admitted, req, outcomes, delays>>

(***************************************************************************)
(* The retry-capable controller: the handlers, up to their first await.    *)
(***************************************************************************)
Arrives(f) ==
    /\ f \in admitted
    /\ pc[f] = "idle"

getTrendingNews(f) ==
    /\ Arrives(f)
    /\ \E query \in QueryInputs :
          CallMakeNewsRequest(f, "getTrendingNews",
              "Failed to fetch trending news", "/top-headlines",
              [country |-> "us", category |-> "general",
               page |-> parseInt(query.page, defaultPage),
               pageSize |-> parseInt(query.pageSize, defaultPageSize)],
              undefined)

getNewsByCategory(f) ==
    /\ Arrives(f)
    /\ \E query \in QueryInputs, category \in CategoryInputs :
          CallMakeNewsRequest(f, "getNewsByCategory",
              "Failed to fetch " \o category \o " news", "/top-headlines",
              [country |-> "us", category |-> category,
               page |-> parseInt(query.page, defaultPage),
               pageSize |-> parseInt(query.pageSize, defaultPageSize)],
              undefined)

getGeneralNews(f) ==
    /\ Arrives(f)
    /\ \E query \in QueryInputs :
          CallMakeNewsRequest(f, "getGeneralNews",
              "Failed to fetch general news", "/top-headlines",
              [country |-> "us",
               page |-> parseInt(query.page, defaultPage),
               pageSize |-> parseInt(query.pageSize, defaultPageSize)],
              undefined)

getPoliticsNews(f) ==
    /\ Arrives(f)
    /\ \E query \in QueryInputs :
          CallMakeNewsRequest(f, "getPoliticsNews",
              "Failed to fetch politics news", "/everything",
              [q |-> "politics", language |-> "en", sortBy |-> "publishedAt",
               page |-> parseInt(query.page, defaultPage),
               pageSize |-> parseInt(query.pageSize, defaultPageSize)],
              undefined)

\* return res.status(400).json({success: false, error: 'Search query is required'})
RejectSearch(f, controller, response, q) ==
    /\ req' = [req EXCEPT ![f] =
                  [controller |-> controller, handler |-> "searchNews",
                   label |-> "", endpoint |-> "", params |-> <<>>, q |-> q]]
    /\ responses' = [responses EXCEPT ![f] = Append(@, response)]
    /\ pc' = [pc EXCEPT ![f] = "done"]
    /\ UNCHANGED <<elsewhere, admitted, attempt, calls, outcomes, delays, settled>>

searchNews(f) ==
    /\ Arrives(f)
    /\ \E query \in QueryInputs, q \in SearchInputs :
          IF isFalsy(q)
          THEN RejectSearch(f, "retry",
                   [status |-> 400, success |-> FALSE,
                    error |-> "Search query is required"], q)
          ELSE CallMakeNewsRequest(f, "searchNews",
                   "Failed to search news", "/everything",
                   [q |-> q, language |-> "en", sortBy |-> "relevancy",
                    page |-> parseInt(query.page, defaultPage),
                    pageSize |-> parseInt(query.pageSize, defaultPageSize)],
                   q)

(***************************************************************************)
(* The minimal controller (src/controllers/news.js).                       *)
(***************************************************************************)
\* the axios instance of the minimal controller
news_newsApiClient ==
    [userAgent |-> "Axios/1.5.0", timeout |-> 10000]

\* a throw without the defaults: {status, message: error.message}
news_classifiedError_noDefault(error) ==
    [status |-> responseStatus(error),
     message |-> error.message]

\* the object the minimal makeNewsRequest throws
news_classifiedError(error) ==
    [status |-> IF responseStatus(error) # 0 THEN responseStatus(error) ELSE 500,
     message |->
        CASE responseStatus(error) = 500 -> "News service temporarily unavailable"
          [] responseStatus(error) = 429 -> "Rate limit exceeded"
          [] responseStatus(error) = 401 -> "Invalid API key"
          [] OTHER -> IF error.message # "" THEN error.message
                      ELSE "Unknown error"]

\* a handler calls makeNewsRequest(endpoint, params): the one call is issued
news_CallMakeNewsRequest(f, handler, endpoint, params, q) ==
    /\ req' = [req EXCEPT ![f] =
                  [controller |-> "minimal", handler |-> handler,
                   label |-> "", endpoint |-> endpoint,
                   params |-> params, q |-> q]]
    /\ calls' = [calls EXCEPT ![f] =
                    Append(@, [endpoint |-> endpoint, params |-> params,
                               userAgent |-> news_newsApiClient.userAgent])]
    /\ pc' = [pc EXCEPT ![f] = "get"]
    /\ UNCHANGED <<elsewhere, admitted, attempt, outcomes, delays, settled,
                   responses>>

\* the call resolves: return response.data; res.json({success: true, ...})
news_getResolve(f) ==
    /\ pc[f] = "get"
    /\ req[f].controller = "minimal"
    /\ \E o \in Answers :
          /\ o.ok
          /\ outcomes' = [outcomes EXCEPT ![f] = Append(@, o)]
          /\ RespondData(f, o.data)
    /\ UNCHANGED <<elsewhere, admitted, req, attempt, calls, delays>>

\* the call rejects: throw {status, message}; the handler's catch block
\* sends res.status(error.status).json({success: false, message})
news_getReject(f) ==
    /\ pc[f] = "get"
    /\ req[f].controller = "minimal"
    /\ \E error \in Answers :
          /\ ~error.ok
          /\ outcomes' = [outcomes EXCEPT ![f] = Append(@, error)]
          /\ settled' = [settled EXCEPT ![f] =
                Append(@, [kind |-> "throw",
                           value |-> news_classifiedError(error)])]
          /\ responses' = [responses EXCEPT ![f] =
                Append(@, [status |-> news_classifiedError(error).status,
                           success |-> FALSE,
                           message |-> news_classifiedError(error).message])]
    /\ pc' = [pc EXCEPT ![f] = "done"]
    /\ UNCHANGED <<elsewhere, admitted, req, attempt, calls, delays>>

news_getTrendingNews(f) ==
    /\ Arrives(f)
    /\ \E query \in QueryInputs :
          news_CallMakeNewsRequest(f, "getTrendingNews", "/top-headlines",
              [country |-> "us",
               page |-> parseInt(query.page, defaultPage),
               pageSize |-> parseInt(query.pageSize, defaultPageSize)],
              undefined)

news_getNewsByCategory(f) ==
    /\ Arrives(f)
    /\ \E query \in QueryInputs, category \in CategoryInputs :
          news_CallMakeNewsRequest(f, "getNewsByCategory", "/top-headlines",
              [country |-> "us", category |-> category,
               page |-> parseInt(query.page, defaultPage),
               pageSize |-> parseInt(query.pageSize, defaultPageSize)],
              undefined)

news_getGeneralNews(f) ==
    /\ Arrives(f)
    /\ \E query \in QueryInputs :
          news_CallMakeNewsRequest(f, "getGeneralNews", "/top-headlines",
              [country |-> "us",
               page |-> parseInt(query.page, defaultPage),
               pageSize |-> parseInt(query.pageSize, defaultPageSize)],
              undefined)

news_getPoliticsNews(f) ==
    /\ Arrives(f)
    /\ \E query \in QueryInputs :
          news_CallMakeNewsRequest(f, "getPoliticsNews", "/everything",
              [q |-> "politics", language |-> "en", sortBy |-> "publishedAt",
               page |-> parseInt(query.page, defaultPage),
               pageSize |-> parseInt(query.pageSize, defaultPageSize)],
              undefined)

news_searchNews(f) ==
    /\ Arrives(f)
    /\ \E query \in QueryInputs, q \in SearchInputs :
          IF isFalsy(q)
          THEN RejectSearch(f, "minimal",
                   [status |-> 400, success |-> FALSE,
                    message |-> "Search query is required"], q)
          ELSE news_CallMakeNewsRequest(f, "searchNews", "/everything",
                   [q |-> q, language |-> "en", sortBy |-> "relevancy",
                    page |-> parseInt(query.page, defaultPage),
                    pageSize |-> parseInt(query.pageSize, defaultPageSize)],
                   q)

(***************************************************************************)
(* The auth middlewares (src/middleware/auth.js, lines 1-109).             *)
(***************************************************************************)
\* the users collection: alice has verified her email, bob has not
Users ==
    [alice |-> [kind |-> "user", id |-> "alice", emailVerified |-> TRUE,
                password |-> TRUE],
     bob   |-> [kind |-> "user", id |-> "bob", emailVerified |-> FALSE,
                password |-> TRUE]]

\* the values of req.header('Authorization'): absent, empty, the bare
\* scheme, a token per case, a token without the scheme, a lower-case scheme
Headers ==
    { undefined, "", "Bearer ",
      "Bearer jwt-alice", "Bearer jwt-bob", "Bearer jwt-ghost",
      "Bearer jwt-noid", "Bearer jwt-expired", "Bearer jwt-forged",
      "jwt-alice", "bearer jwt-alice" }

\* String.prototype.replace('Bearer ', '')
replace(header) ==
    CASE header = "Bearer " -> ""
      [] header = "Bearer jwt-alice" -> "jwt-alice"
      [] header = "Bearer jwt-bob" -> "jwt-bob"
      [] header = "Bearer jwt-ghost" -> "jwt-ghost"
      [] header = "Bearer jwt-noid" -> "jwt-noid"
      [] header = "Bearer jwt-expired" -> "jwt-expired"
      [] header = "Bearer jwt-forged" -> "jwt-forged"
      [] OTHER -> header

\* req.header('Authorization')?.replace('Bearer ', '')
bearerToken(header) ==
    IF header = undefined THEN undefined ELSE replace(header)

\* jwt.verify(token, process.env.JWT_SECRET): the payload, or the error
\* it throws
verify(token) ==
    CASE token = "jwt-alice" -> [ok |-> TRUE, name |-> "", userId |-> "alice"]
      [] token = "jwt-bob" -> [ok |-> TRUE, name |-> "", userId |-> "bob"]
      [] token = "jwt-ghost" -> [ok |-> TRUE, name |-> "", userId |-> "ghost"]
      [] token = "jwt-noid" -> [ok |-> TRUE, name |-> "", userId |-> undefined]
      [] token = "jwt-expired" ->
            [ok |-> FALSE, name |-> "TokenExpiredError", userId |-> undefined]
      [] OTHER ->
            [ok |-> FALSE, name |-> "JsonWebTokenError", userId |-> undefined]

\* .select('-password')
select(doc) == [doc EXCEPT !.password = FALSE]

\* User.findById(userId).select('-password'): the document, or null
findById(userId) ==
    IF userId \in DOMAIN Users THEN select(Users[userId]) ELSE Null

\* how the awaited lookup settles: with what findById finds, or rejected
LookupResults(userId) ==
    { [settled |-> TRUE, ok |-> TRUE, user |-> findById(userId), name |-> ""],
      [settled |-> TRUE, ok |-> FALSE, user |-> Null, name |-> "MongooseError"] }

\* return res.status(status).json({success: false, message})
Deny(r, status, message) ==
    /\ mwResponses' = [mwResponses EXCEPT ![r] =
                          Append(@, [status |-> status, success |-> FALSE,
                                     message |-> message])]
    /\ mwPc' = [mwPc EXCEPT ![r] = "done"]
    /\ UNCHANGED <<reqUser, nextCalls>>

\* req.user = user; next()
Pass(r, user) ==
    /\ reqUser' = [reqUser EXCEPT ![r] = user]
    /\ nextCalls' = [nextCalls EXCEPT ![r] = @ + 1]
    /\ mwPc' = [mwPc EXCEPT ![r] = "done"]
    /\ UNCHANGED mwResponses

\* the catch block of authMiddleware and authMiddlewareAllowUnverified
catchBlock(r, error) ==
    IF error.name = "TokenExpiredError"
    THEN Deny(r, 401, "Token expired")
    ELSE Deny(r, 401, "Token is not valid")

\* the middleware starts: the header is read and the token verified; with a
\* token that verifies the middleware awaits the lookup
Enter(r, middleware, header, noToken, invalid) ==
    /\ mwPc[r] = "idle"
    /\ mwReq' = [mwReq EXCEPT ![r] =
                    [middleware |-> middleware, header |-> header]]
    /\ IF isFalsy(bearerToken(header))
       THEN noToken
       ELSE IF verify(bearerToken(header)).ok
            THEN /\ mwPc' = [mwPc EXCEPT ![r] = "findById"]
                 /\ UNCHANGED <<reqUser, nextCalls, mwResponses>>
            ELSE invalid
    /\ UNCHANGED <<newsVars, dbVars, lookups>>

\* the awaited lookup of the middleware settles with result
Resumes(r, middleware, result) ==
    /\ mwPc[r] = "findById"
    /\ mwReq[r].middleware = middleware
    /\ lookups' = [lookups EXCEPT ![r] = result]
    /\ UNCHANGED <<newsVars, dbVars, mwReq>>

\* a middleware without the check of user.emailVerified
emailNotVerified_skipped(user) ==
    FALSE

\* !user.emailVerified
emailNotVerified(user) ==
    ~user.emailVerified

\* authMiddleware up to `await User.findById(...)`
authMiddleware(r) ==
    \E header \in Headers :
        Enter(r, "authMiddleware", header,
              Deny(r, 401, "No token provided, authorization denied"),
              catchBlock(r, verify(bearerToken(header))))

\* authMiddleware after the await
authMiddleware_findById(r) ==
    \E result \in LookupResults(verify(bearerToken(mwReq[r].header)).userId) :
        /\ Resumes(r, "authMiddleware", result)
        /\ IF ~result.ok
           THEN catchBlock(r, result)
           ELSE IF result.user.kind = "null"
                THEN Deny(r, 401, "Token is not valid - user not found")
                ELSE IF emailNotVerified(result.user)
                     THEN Deny(r, 403, "Email not verified, please verify your email to access this resource")
                     ELSE Pass(r, result.user)

\* authMiddlewareAllowUnverified up to the await
authMiddlewareAllowUnverified(r) ==
    \E header \in Headers :
        Enter(r, "authMiddlewareAllowUnverified", header,
              Deny(r, 401, "No token provided, authorization denied"),
              catchBlock(r, verify(bearerToken(header))))

\* authMiddlewareAllowUnverified after the await
authMiddlewareAllowUnverified_findById(r) ==
    \E result \in LookupResults(verify(bearerToken(mwReq[r].header)).userId) :
        /\ Resumes(r, "authMiddlewareAllowUnverified", result)
        /\ IF ~result.ok
           THEN catchBlock(r, result)
           ELSE IF result.user.kind = "null"
                THEN Deny(r, 401, "Token is not valid - user not found")
                ELSE Pass(r, result.user)

\* a catch block that answers as authMiddleware does
optionalAuth_catch_denies(r, error) ==
    catchBlock(r, error)

\* the catch block of optionalAuth: req.user = null; next()
optionalAuth_catch(r, error) ==
    Pass(r, Null)

\* optionalAuth up to the await
optionalAuth(r) ==
    \E header \in Headers :
        Enter(r, "optionalAuth", header,
              Pass(r, Null),
              optionalAuth_catch(r, verify(bearerToken(header))))

\* optionalAuth after the await: req.user = user ? user : null; next()
optionalAuth_findById(r) ==
    \E result \in LookupResults(verify(bearerToken(mwReq[r].header)).userId) :
        /\ Resumes(r, "optionalAuth", result)
        /\ IF ~result.ok
           THEN optionalAuth_catch(r, result)
           ELSE Pass(r, IF result.user.kind # "null" THEN result.user
                        ELSE Null)

(***************************************************************************)
(* connectToDB (config/db.js, src/unnamed/part_001).                       *)
(***************************************************************************)
\* the values of process.env.MONGODB_URI
Uris == {undefined, "mongodb://db/brevity"}

\* the promise chain of one mongoose.connect(uri).then(..).finally(..):
\* "connecting", then "opened" (connect resolved) and "chained" (the then
\* callback ran), or "failed" (connect rejected), and after the finally
\* callback "fulfilled" or "rejected"
Pending == {"connecting", "opened", "chained", "failed"}

\* the connects whose mongoose.connect has not settled
Connecting == { i \in DOMAIN promises : promises[i] = "connecting" }

\* what one call of connectToDB returned
Returned(kind, promise) == [returned |-> kind, promise |-> promise]

\* connectToDB(), up to its return
connectToDB ==
    /\ Len(dbCalls) < MaxCalls
    /\ IF readyState = 1
       THEN /\ dbCalls' = Append(dbCalls, Returned("connection", 0))
            /\ UNCHANGED <<readyState, connPromise, promises>>
       ELSE IF connPromise # 0
            THEN /\ dbCalls' = Append(dbCalls, Returned("promise", connPromise))
                 /\ UNCHANGED <<readyState, connPromise, promises>>
            ELSE IF isFalsy(uri)
                 THEN /\ dbCalls' = Append(dbCalls, Returned("throw", 0))
                      /\ UNCHANGED <<readyState, connPromise, promises>>
                 ELSE /\ promises' = Append(promises, "connecting")
                      /\ readyState' = 2
                      /\ connPromise' = Len(promises) + 1
                      /\ dbCalls' = Append(dbCalls,
                                       Returned("promise", Len(promises) + 1))
    /\ UNCHANGED <<newsVars, authVars, uri>>

\* mongoose.connect resolves: the connection is open
connectResolve ==
    /\ \E i \in Connecting :
          promises' = [promises EXCEPT ![i] = "opened"]
    /\ readyState' = 1
    /\ UNCHANGED <<newsVars, authVars, uri, connPromise, dbCalls>>

\* mongoose.connect rejects: the connection is closed
connectReject ==
    /\ \E i \in Connecting :
          promises' = [promises EXCEPT ![i] = "failed"]
    /\ readyState' = 0
    /\ UNCHANGED <<newsVars, authVars, uri, connPromise, dbCalls>>

\* .then(() => mongoose.connection)
thenCallback ==
    /\ \E i \in DOMAIN promises :
          /\ promises[i] = "opened"
          /\ promises' = [promises EXCEPT ![i] = "chained"]
    /\ UNCHANGED <<newsVars, authVars, uri, readyState, connPromise, dbCalls>>

\* a chain without the finally callback: connPromise keeps the promise
finallyCallback_keepsPromise ==
    /\ \E i \in DOMAIN promises :
          /\ promises[i] \in {"chained", "failed"}
          /\ promises' = [promises EXCEPT ![i] =
                             IF @ = "chained" THEN "fulfilled" ELSE "rejected"]
    /\ UNCHANGED <<newsVars, authVars, uri, readyState, connPromise, dbCalls>>

\* .finally(() => { connPromise = null; })
finallyCallback ==
    /\ \E i \in DOMAIN promises :
          /\ promises[i] \in {"chained", "failed"}
          /\ promises' = [promises EXCEPT ![i] =
                             IF @ = "chained" THEN "fulfilled" ELSE "rejected"]
    /\ connPromise' = 0
    /\ UNCHANGED <<newsVars, authVars, uri, readyState, dbCalls>>

\* the open connection is lost: readyState leaves 1
connectionLost ==
    /\ readyState = 1
    /\ readyState' = 0
    /\ UNCHANGED <<newsVars, authVars, uri, connPromise, promises, dbCalls>>

(***************************************************************************)
(* The specification.                                                      *)
(***************************************************************************)
Next ==
    \E f \in Fetches :
        \/ getTrendingNews(f)
        \/ getNewsByCategory(f)
        \/ getGeneralNews(f)
        \/ getPoliticsNews(f)
        \/ searchNews(f)
        \/ getResolve(f)
        \/ getReject(f)
        \/ delayResolve(f)
        \/ news_getTrendingNews(f)
        \/ news_getNewsByCategory(f)
        \/ news_getGeneralNews(f)
        \/ news_getPoliticsNews(f)
        \/ news_searchNews(f)
        \/ news_getResolve(f)
        \/ news_getReject(f)

Spec == Init /\ [][Next]_vars

\* two concurrent fetches
SpecPair == InitPair /\ [][Next]_vars

\* every upstream call settles and every backoff timer fires
Fairness ==
    \A f \in Fetches :
        /\ WF_vars(getResolve(f) \/ getReject(f))
        /\ WF_vars(delayResolve(f))
        /\ WF_vars(news_getResolve(f) \/ news_getReject(f))

SpecFair == Spec /\ Fairness

\* the auth middlewares serving two requests
InitAuth ==
    /\ admitted = {}
    /\ upstream = "any"
    /\ Quiet
    /\ AuthQuiet
    /\ DbQuiet

NextAuth ==
    \E r \in Requests :
        \/ authMiddleware(r)
        \/ authMiddleware_findById(r)
        \/ authMiddlewareAllowUnverified(r)
        \/ authMiddlewareAllowUnverified_findById(r)
        \/ optionalAuth(r)
        \/ optionalAuth_findById(r)

SpecAuth == InitAuth /\ [][NextAuth]_vars

\* connectToDB called from concurrent request handlers
InitDB ==
    /\ admitted = {}
    /\ upstream = "any"
    /\ Quiet
    /\ AuthQuiet
    /\ uri \in Uris
    /\ DbClosed

NextDB ==
    \/ connectToDB
    \/ connectResolve
    \/ connectReject
    \/ thenCallback
    \/ finallyCallback
    \/ connectionLost

SpecDB == InitDB /\ [][NextDB]_vars

(***************************************************************************)
(* Properties.                                                             *)
(***************************************************************************)
\* the fetch is served by the retry-capable controller
Retrying(f) == req[f].controller = "retry"

\* the one response of a fetch that has responded
Response(f) == responses[f][1]

\* an HTTP answer that is neither 403 nor 429 and carries no challenge
\* marker (401, 400, 500)
NonTransientFailure(o) ==
    /\ ~o.ok
    /\ o.hasResponse
    /\ o.status \notin {403, 429}
    /\ o.data.marks = {}

\* HTTP 429, HTTP 403, or a body carrying the marker "cloudflare"
TransientFailure(o) ==
    /\ ~o.ok
    /\ o.hasResponse
    /\ o.status \in {403, 429} \/ "cloudflare" \in o.data.marks

\* the failures the backoff branch is entered for: 403, 429, a connection
\* reset, or a string body that contains "cloudflare"
BackoffCause(o) ==
    /\ ~o.ok
    /\ \/ o.hasResponse /\ o.status \in {403, 429}
       \/ o.code = "ECONNRESET"
       \/ o.hasResponse /\ o.data.type = "string" /\ "cloudflare" \in o.data.marks

\* HTTP 429 with a body that carries no anti-bot marker
RateLimited(o) ==
    /\ ~o.ok
    /\ o.hasResponse
    /\ o.status = 429
    /\ o.data.marks = {}

\* C1: a non-transient failure (401, 500, 400, ...) on an attempt k < retries
\* ends the fetch: exactly k upstream calls were made and the classified
\* error of attempt k is what makeNewsRequest threw.
C1_NonTransientSurfacedAtOnce ==
    \A f \in Fetches :
        Retrying(f) =>
            \A k \in DOMAIN outcomes[f] :
                (k < retries /\ NonTransientFailure(outcomes[f][k])) =>
                    /\ Len(calls[f]) = k
                    /\ pc[f] = "done"
                    /\ settled[f] =
                          << [kind |-> "throw",
                              value |-> classifiedError(outcomes[f][k])] >>

\* C2: a search with a non-empty q whose three attempts are all answered 429
\* (no anti-bot marker in the body) makes 3 upstream calls, backs off 2000 ms
\* and 4000 ms, and responds success:false, error "Failed to search news",
\* isCloudflareIssue:false, retryAfter:60.
C2_SearchRateLimitedThrice ==
    \A f \in Fetches :
        ( /\ Retrying(f)
          /\ req[f].handler = "searchNews"
          /\ Len(outcomes[f]) = 3
          /\ \A k \in 1..3 : RateLimited(outcomes[f][k]) ) =>
            /\ Len(calls[f]) = 3
            /\ delays[f] = << [after |-> 1, ms |-> 2000],
                              [after |-> 2, ms |-> 4000] >>
            /\ Len(responses[f]) = 1
            /\ Response(f).success = FALSE
            /\ Response(f).error = "Failed to search news"
            /\ Response(f).isCloudflareIssue = FALSE
            /\ Response(f).retryAfter = 60

C4_SuccessShortCircuits ==
    \A f \in Fetches :
        Retrying(f) =>
            \A k \in DOMAIN outcomes[f] :
                outcomes[f][k].ok =>
                    /\ Len(outcomes[f]) = k
                    /\ Len(calls[f]) = k
                    /\ attempt[f] = k
                    /\ pc[f] = "done"
                    /\ \A d \in DOMAIN delays[f] : delays[f][d].after < k
                    /\ settled[f] =
                          << [kind |-> "return",
                              value |-> Payload(outcomes[f][k].data.id)] >>
                    /\ responses[f] =
                          << [status |-> 200, success |-> TRUE,
                              data |-> Payload(outcomes[f][k].data.id),
                              timestamp |-> "toISOString"] >>

\* C4 happens: an attempt succeeds after a backoff, and one succeeds at once
C4_Witness ==
    \E f \in Fetches :
        /\ Retrying(f)
        /\ pc[f] = "done"
        /\ Len(outcomes[f]) = 2
        /\ outcomes[f][2].ok
        /\ Len(delays[f]) = 1

\* C5: a search without q, or with the empty q, is answered 400 with
\* success:false and no upstream call, in both controllers; a search with a
\* non-empty q makes at least one upstream call.
C5_SearchNeedsQuery ==
    \A f \in Fetches :
        req[f].handler = "searchNews" =>
            IF req[f].q \in {undefined, ""}
            THEN /\ calls[f] = <<>>
                 /\ outcomes[f] = <<>>
                 /\ attempt[f] = 0
                 /\ settled[f] = <<>>
                 /\ pc[f] = "done"
                 /\ Len(responses[f]) = 1
                 /\ Response(f).status = 400
                 /\ Response(f).success = FALSE
            ELSE Len(calls[f]) >= 1

\* C5 happens: the retry-capable search was called with q = ""
C5_Witness ==
    \E f \in Fetches :
        /\ req[f].handler = "searchNews"
        /\ req[f].controller = "retry"
        /\ req[f].q = ""
        /\ pc[f] = "done"

\* C6: a timeout on attempt k < retries is followed by a suspension of
\* 2^k * 1000 ms before attempt k + 1.
C6_TimeoutBacksOff ==
    \A f \in Fetches :
        Retrying(f) =>
            \A k \in DOMAIN outcomes[f] :
                (k < retries /\ outcomes[f][k] = Timeout) =>
                    \E d \in DOMAIN delays[f] :
                        delays[f][d] = [after |-> k, ms |-> (2 ^ k) * 1000]

\* C7: the User-Agent headers of the calls of one fetch are pairwise
\* different, the first being the default User-Agent of the client.
C7_UserAgentsDiffer ==
    \A f \in Fetches :
        (Retrying(f) /\ calls[f] # <<>>) =>
            /\ calls[f][1].userAgent = newsApiClient.userAgent
            /\ \A i, j \in DOMAIN calls[f] :
                  i < j => calls[f][i].userAgent # calls[f][j].userAgent

\* C7 happens: all three attempts of a fetch were issued
C7_Witness ==
    \E f \in Fetches :
        /\ Retrying(f)
        /\ Len(calls[f]) = 3

\* C8: a 403 whose body contains "cloudflare" is backed off while attempts
\* remain and, when it is the final failure, answered isCloudflareIssue:true
\* with retryAfter >= 300; a final plain 500 is answered isCloudflareIssue:false
\* with retryAfter <= 60; every response to an upstream failure has retryAfter
\* 300 when isCloudflareIssue is true and 60 when it is not.
C8_RetryAfterFollowsClassification ==
    \A f \in Fetches :
        Retrying(f) =>
            /\ \A k \in DOMAIN outcomes[f] :
                  ( /\ k < retries
                    /\ outcomes[f][k] = HttpError(403, TextBody({"cloudflare"})) ) =>
                      \E d \in DOMAIN delays[f] :
                          delays[f][d] = [after |-> k, ms |-> (2 ^ k) * 1000]
            /\ ( /\ pc[f] = "done"
                 /\ outcomes[f] # <<>>
                 /\ ~outcomes[f][Len(outcomes[f])].ok ) =>
                   LET e == outcomes[f][Len(outcomes[f])]
                   IN  /\ Len(responses[f]) = 1
                       /\ Response(f).success = FALSE
                       /\ ( /\ e.hasResponse
                            /\ e.status = 403
                            /\ "cloudflare" \in e.data.marks ) =>
                              /\ Response(f).isCloudflareIssue = TRUE
                              /\ Response(f).retryAfter >= 300
                       /\ ( /\ e.hasResponse
                            /\ e.status = 500
                            /\ e.data.marks = {} ) =>
                              /\ Response(f).isCloudflareIssue = FALSE
                              /\ Response(f).retryAfter <= 60
                       /\ Response(f).isCloudflareIssue \in BOOLEAN
                       /\ Response(f).retryAfter =
                             IF Response(f).isCloudflareIssue THEN 300 ELSE 60

\* C8 happens: a fetch ended on a 403 with a "cloudflare" body
C8_Witness ==
    \E f \in Fetches :
        /\ Retrying(f)
        /\ pc[f] = "done"
        /\ Len(outcomes[f]) = retries
        /\ outcomes[f][retries] = HttpError(403, TextBody({"cloudflare"}))
        /\ outcomes[f][1] = HttpError(403, TextBody({"cloudflare"}))

\* C9: once makeNewsRequest runs, its attempt counter is in 1..retries and
\* it has issued at most `retries` upstream calls.
C9_AttemptsBounded ==
    \A f \in Fetches :
        (Retrying(f) /\ calls[f] # <<>>) =>
            /\ attempt[f] \in 1..retries
            /\ Len(calls[f]) <= retries
            /\ Len(calls[f]) = attempt[f]

\* C9 happens: the last attempt failed after two failures of either kind
C9_Witness ==
    \E f \in Fetches :
        /\ Retrying(f)
        /\ pc[f] = "done"
        /\ attempt[f] = retries
        /\ Len(outcomes[f]) = retries
        /\ NonTransientFailure(outcomes[f][1])
        /\ TransientFailure(outcomes[f][2])
        /\ ~outcomes[f][retries].ok

\* C10: a handler of the retry-capable controller sends one response, when
\* it is done, and none before; success:true only with the payload of an
\* attempt that succeeded, otherwise success:false with a message.
\* makeNewsRequest ends only by returning such a payload or by throwing
\* {status, message, isCloudflareIssue}.
C10_EveryFetchAnswered ==
    \A f \in Fetches :
        Retrying(f) =>
            /\ Len(responses[f]) = IF pc[f] = "done" THEN 1 ELSE 0
            /\ Len(settled[f]) =
                  IF pc[f] = "done" /\ calls[f] # <<>> THEN 1 ELSE 0
            /\ \A i \in DOMAIN settled[f] :
                  IF settled[f][i].kind = "return"
                  THEN \E k \in DOMAIN outcomes[f] :
                          /\ outcomes[f][k].ok
                          /\ settled[f][i].value = outcomes[f][k].data
                  ELSE /\ DOMAIN settled[f][i].value =
                             {"status", "message", "isCloudflareIssue"}
                       /\ settled[f][i].value.status \in 400..599
                       /\ settled[f][i].value.message # ""
                       /\ settled[f][i].value.isCloudflareIssue \in BOOLEAN
            /\ pc[f] = "done" =>
                  IF Response(f).success
                  THEN \E k \in DOMAIN outcomes[f] :
                          /\ outcomes[f][k].ok
                          /\ Response(f).data = outcomes[f][k].data
                  ELSE IF outcomes[f] = <<>>
                       THEN Response(f).error # ""
                       ELSE /\ \A k \in DOMAIN outcomes[f] : ~outcomes[f][k].ok
                            /\ Response(f).message # ""
                            /\ Response(f).error # ""

\* C10 happens: a fetch failed on every attempt and answered
C10_Witness ==
    \E f \in Fetches :
        /\ Retrying(f)
        /\ pc[f] = "done"
        /\ Len(outcomes[f]) = retries
        /\ Response(f).success = FALSE

\* the upstream calls of a fetch that are issued and not yet settled
InFlight(f) == Len(calls[f]) - Len(outcomes[f])

\* C11: a fetch has at most one upstream call in flight, none while it is
\* suspended in a backoff; a call is started only when the request arrives,
\* when the backoff timer fires, or when the previous call has settled
\* without starting a backoff.
C11_SequentialRetries ==
    /\ [](\A f \in Fetches :
            Retrying(f) =>
                /\ InFlight(f) = IF pc[f] = "get" THEN 1 ELSE 0
                /\ pc[f] = "delay" =>
                      /\ delays[f] # <<>>
                      /\ delays[f][Len(delays[f])].after = Len(calls[f]))
    /\ [][\A f \in Fetches :
            Len(calls'[f]) > Len(calls[f]) =>
                /\ Len(calls'[f]) = Len(calls[f]) + 1
                /\ \/ pc[f] = "idle"
                   \/ pc[f] = "delay" /\ outcomes'[f] = outcomes[f]
                   \/ /\ pc[f] = "get"
                      /\ Len(outcomes'[f]) = Len(calls[f])
                      /\ delays'[f] = delays[f]]_vars

\* C11 happens: attempt 2 is in flight after the backoff that followed
\* attempt 1
C11_Witness ==
    \E f \in Fetches :
        /\ Retrying(f)
        /\ pc[f] = "get"
        /\ Len(calls[f]) = 2
        /\ Len(delays[f]) = 1

\* everything the model keeps about one fetch
Own(f) ==
    <<pc[f], req[f], attempt[f], calls[f], outcomes[f], delays[f],
      settled[f], responses[f]>>

\* C12: two interleaved fetches do not affect each other.  A step of one
\* leaves the other's state alone; while one is suspended in its backoff the
\* other can arrive, have its call settled and have its own timer fire; and
\* the attempt counter, the User-Agents, the backoffs and the result of a
\* fetch are those its own upstream outcomes determine.
C12_FetchesIndependent ==
    /\ [][\A f, g \in Fetches :
            (f # g /\ Own(f)' # Own(f)) => Own(g)' = Own(g)]_vars
    /\ [](\A f, g \in Fetches :
            (f # g /\ pc[f] = "delay") =>
                /\ pc[g] = "idle" => ENABLED getTrendingNews(g)
                /\ (pc[g] = "get" /\ Retrying(g)) =>
                      ENABLED getResolve(g) /\ ENABLED getReject(g)
                /\ pc[g] = "delay" => ENABLED delayResolve(g))
    /\ [](\A f \in Fetches :
            (Retrying(f) /\ calls[f] # <<>>) =>
                /\ attempt[f] = Len(calls[f])
                /\ \A k \in DOMAIN calls[f] :
                      calls[f][k].userAgent =
                          IF k = 1 THEN newsApiClient.userAgent
                          ELSE userAgents[k]
                /\ \A i \in DOMAIN delays[f] :
                      /\ delays[f][i].after \in DOMAIN outcomes[f]
                      /\ BackoffCause(outcomes[f][delays[f][i].after])
                      /\ delays[f][i].ms = (2 ^ delays[f][i].after) * 1000
                /\ pc[f] = "done" =>
                      LET last == outcomes[f][Len(outcomes[f])]
                      IN  IF last.ok
                          THEN /\ Response(f).success
                               /\ Response(f).data = last.data
                          ELSE /\ ~Response(f).success
                               /\ Len(outcomes[f]) = retries
                               /\ Response(f).status = last.status
                               /\ settled[f][1].value = classifiedError(last))

\* C12 happens: one fetch went through all its attempts and answered, the
\* other is suspended in its first backoff
C12_Witness ==
    \E f, g \in Fetches :
        /\ f # g
        /\ Retrying(f) /\ Retrying(g)
        /\ pc[f] = "delay"
        /\ Len(delays[f]) = 1
        /\ pc[g] = "done"
        /\ Len(outcomes[g]) = retries

\* C13: every attempt of a fetch sends the endpoint and the query parameters
\* the handler passed, plus the API key, so attempt k sends what attempt 1
\* sent; the params object the handler passed is not changed while the fetch
\* runs.
C13_QueryUnchangedAcrossAttempts ==
    /\ [](\A f \in Fetches :
            Retrying(f) =>
                /\ "apiKey" \notin DOMAIN req[f].params
                /\ \A k \in DOMAIN calls[f] :
                      /\ calls[f][k].endpoint = req[f].endpoint
                      /\ DOMAIN calls[f][k].params =
                            DOMAIN req[f].params \cup {"apiKey"}
                      /\ calls[f][k].params.apiKey = NEWS_API_KEY
                      /\ \A key \in DOMAIN req[f].params :
                            calls[f][k].params[key] = req[f].params[key]
                      /\ calls[f][k].endpoint = calls[f][1].endpoint
                      /\ calls[f][k].params = calls[f][1].params)
    /\ [][\A f \in Fetches : pc[f] # "idle" => req'[f] = req[f]]_vars

\* C13 happens: a search went through three attempts with changing
\* User-Agents
C13_Witness ==
    \E f \in Fetches :
        /\ Retrying(f)
        /\ req[f].handler = "searchNews"
        /\ Len(calls[f]) = retries
        /\ calls[f][2].userAgent # calls[f][3].userAgent
        /\ calls[f][3].params.q = "climate"

\* C14: every backoff of a fetch follows an attempt k < retries that failed
\* with 403, 429, a connection reset or the marker in the body, lasts
\* 2^k * 1000 ms, and no attempt is followed by two backoffs.
C14_BackoffOnlyWhenTransient ==
    \A f \in Fetches :
        Retrying(f) =>
            \A i \in DOMAIN delays[f] :
                LET k == delays[f][i].after
                IN  /\ k \in 1..(retries - 1)
                    /\ k \in DOMAIN outcomes[f]
                    /\ BackoffCause(outcomes[f][k])
                    /\ delays[f][i].ms = (2 ^ k) * 1000
                    /\ \A j \in DOMAIN delays[f] :
                          i < j => k < delays[f][j].after

\* C14 happens: a fetch that saw a timeout, a rate limit and a success
\* backed off once, after the rate limit
C14_Witness ==
    \E f \in Fetches :
        /\ Retrying(f)
        /\ pc[f] = "done"
        /\ Len(outcomes[f]) = retries
        /\ outcomes[f][1] = Timeout
        /\ outcomes[f][2].status = 429
        /\ outcomes[f][3].ok
        /\ delays[f] = <<[after |-> 2, ms |-> 4000]>>

\* the last upstream outcome of a fetch
LastOutcome(f) == outcomes[f][Len(outcomes[f])]

\* the anti-bot classification of a failure, read off the upstream answer
BlockedAnswer(o) ==
    /\ o.hasResponse
    /\ IF o.data.type = "string"
       THEN o.data.marks \cap {"cloudflare", "Just a moment",
                               "Enable JavaScript and cookies"} # {}
       ELSE o.status \in {403, 429}

\* C18: a fetch that fails answers from its last attempt alone: the status
\* is the upstream status of the last failure, or 500 when the upstream did
\* not answer; isCloudflareIssue and retryAfter follow the last failure;
\* whatever makeNewsRequest throws is answered by the handler.  After 429,
\* 429 and a plain 500 the response is 500 with retryAfter 60.
C18_ClassifiedFromLastAttempt ==
    \A f \in Fetches :
        (Retrying(f) /\ settled[f] # <<>> /\ settled[f][1].kind = "throw") =>
            /\ pc[f] = "done"
            /\ Len(settled[f]) = 1
            /\ Len(responses[f]) = 1
            /\ ~LastOutcome(f).ok
            /\ Response(f).status =
                  IF LastOutcome(f).hasResponse THEN LastOutcome(f).status
                  ELSE 500
            /\ Response(f).status = settled[f][1].value.status
            /\ Response(f).isCloudflareIssue = BlockedAnswer(LastOutcome(f))
            /\ Response(f).retryAfter =
                  IF BlockedAnswer(LastOutcome(f)) THEN 300 ELSE 60
            /\ ( /\ Len(outcomes[f]) = 3
                 /\ outcomes[f][1].status = 429
                 /\ outcomes[f][2].status = 429
                 /\ outcomes[f][3] = HttpError(500, TextBody({})) ) =>
                    /\ Response(f).status = 500
                    /\ Response(f).retryAfter = 60
                    /\ ~Response(f).isCloudflareIssue

\* C18 happens: 429, 429, then a plain 500
C18_Witness ==
    \E f \in Fetches :
        /\ Retrying(f)
        /\ pc[f] = "done"
        /\ Len(outcomes[f]) = 3
        /\ outcomes[f][1].status = 429
        /\ outcomes[f][2].status = 429
        /\ outcomes[f][3] = HttpError(500, TextBody({}))
        /\ Response(f).status = 500

\* the fetch is served by the minimal controller
Minimal(f) == req[f].controller = "minimal"

\* C19: the minimal controller makes at most one upstream call per request
\* and never waits; when the call fails it answers once with success false
\* and the upstream status, or 500 when the upstream did not answer; what
\* it throws has a status and a non-empty message.
C19_MinimalNeverRetries ==
    \A f \in Fetches :
        Minimal(f) =>
            /\ Len(calls[f]) <= 1
            /\ Len(outcomes[f]) <= 1
            /\ delays[f] = <<>>
            /\ attempt[f] = 0
            /\ outcomes[f] # <<>> =>
                  /\ pc[f] = "done"
                  /\ Len(responses[f]) = 1
                  /\ Len(settled[f]) = 1
            /\ (outcomes[f] # <<>> /\ ~outcomes[f][1].ok) =>
                  /\ ~Response(f).success
                  /\ Response(f).status =
                        IF outcomes[f][1].hasResponse
                        THEN outcomes[f][1].status ELSE 500
                  /\ settled[f][1].kind = "throw"
                  /\ settled[f][1].value.status \in 100..599
                  /\ settled[f][1].value.message # ""
                  /\ Response(f).message = settled[f][1].value.message

\* C19 happens: the minimal controller answered a 429 with one call
C19_Witness ==
    \E f \in Fetches :
        /\ Minimal(f)
        /\ pc[f] = "done"
        /\ Len(calls[f]) = 1
        /\ outcomes[f][1].status = 429
        /\ Response(f).status = 429

\* C15: when every upstream call settles and every timer fires, a fetch
\* that has started ends with its one response; it makes at most retries
\* upstream calls and at most retries - 1 backoffs, and once it has
\* responded it does nothing more.
C15_EveryFetchTerminates ==
    /\ \A f \in Fetches :
          (Retrying(f) /\ pc[f] \in {"get", "delay"}) ~>
              (pc[f] = "done" /\ Len(responses[f]) = 1)
    /\ [](\A f \in Fetches :
            Retrying(f) =>
                /\ pc[f] \in {"get", "delay", "done"}
                /\ Len(calls[f]) <= retries
                /\ Len(delays[f]) <= retries - 1
                /\ Len(responses[f]) = IF pc[f] = "done" THEN 1 ELSE 0)
    /\ [][\A f \in Fetches : pc[f] = "done" => Own(f)' = Own(f)]_vars

\* C15 happens: a fetch used all its calls and both backoffs and responded
C15_Witness ==
    \E f \in Fetches :
        /\ Retrying(f)
        /\ pc[f] = "done"
        /\ Len(calls[f]) = retries
        /\ Len(delays[f]) = retries - 1
        /\ Len(responses[f]) = 1

\* the request carries a token: a non-empty Authorization header that is
\* more than the bare scheme
Presented(r) == mwReq[r].header \notin {undefined, "", "Bearer "}

\* the token of the request is a signed, unexpired JWT
Verifies(r) ==
    mwReq[r].header \in {"Bearer jwt-alice", "Bearer jwt-bob",
                         "Bearer jwt-ghost", "Bearer jwt-noid", "jwt-alice"}

\* the token of the request is a signed JWT past its expiry
Expired(r) == mwReq[r].header = "Bearer jwt-expired"

\* the lookup was answered
Answered(r) == lookups[r].settled /\ lookups[r].ok

\* the lookup returned the user the token refers to
Found(r) == Answered(r) /\ lookups[r].user.kind = "user"

\* the middleware set req.user to a user, called next once and sent nothing
LetThrough(r) ==
    /\ nextCalls[r] = 1
    /\ mwResponses[r] = <<>>
    /\ reqUser[r].kind = "user"
    /\ reqUser[r] = lookups[r].user
    /\ ~reqUser[r].password

\* the one failure response of the middleware: next not called, req.user
\* not assigned
Denied(r, status, message) ==
    /\ nextCalls[r] = 0
    /\ reqUser[r] = Unset
    /\ mwResponses[r] =
          <<[status |-> status, success |-> FALSE, message |-> message]>>

\* the 401 a request without a usable token and user receives
Denied401(r) ==
    IF ~Presented(r)
    THEN Denied(r, 401, "No token provided, authorization denied")
    ELSE IF Expired(r)
         THEN Denied(r, 401, "Token expired")
         ELSE IF ~Verifies(r) \/ ~Answered(r)
              THEN Denied(r, 401, "Token is not valid")
              ELSE Denied(r, 401, "Token is not valid - user not found")

\* C16: authMiddleware sets req.user and calls next exactly when a token is
\* presented, it verifies, the lookup returns the user and the user's email
\* is verified.  Otherwise it sends one failure response and does not call
\* next: 401 without a token, with an invalid or expired token, with a
\* lookup that fails or finds no user, and 403 for an unverified email.
C16_AuthMiddlewareGate ==
    \A r \in Requests :
        mwReq[r].middleware = "authMiddleware" =>
            /\ nextCalls[r] + Len(mwResponses[r]) =
                  IF mwPc[r] = "done" THEN 1 ELSE 0
            /\ mwPc[r] # "done" => reqUser[r] = Unset
            /\ mwPc[r] = "done" =>
                  IF /\ Presented(r)
                     /\ Verifies(r)
                     /\ Found(r)
                     /\ lookups[r].user.emailVerified
                  THEN LetThrough(r)
                  ELSE IF Presented(r) /\ Verifies(r) /\ Found(r)
                       THEN Denied(r, 403, "Email not verified, please verify your email to access this resource")
                       ELSE Denied401(r)

\* C16 happens: authMiddleware let alice through and answered bob with 403
C16_Witness ==
    \E r, q \in Requests :
        /\ mwReq[r].middleware = "authMiddleware"
        /\ mwReq[q].middleware = "authMiddleware"
        /\ LetThrough(r)
        /\ reqUser[r].id = "alice"
        /\ mwPc[q] = "done"
        /\ mwReq[q].header = "Bearer jwt-bob"
        /\ Len(mwResponses[q]) = 1
        /\ mwResponses[q][1].status = 403

\* C20: optionalAuth never answers: it calls next once, with req.user the
\* user when a token is presented, verifies and the lookup returns the
\* user, and null otherwise.  authMiddlewareAllowUnverified lets a request
\* through when a token is presented, verifies and the lookup returns the
\* user, verified or not, and otherwise answers the 401 of authMiddleware.
C20_OptionalAndUnverified ==
    \A r \in Requests :
        /\ mwReq[r].middleware = "optionalAuth" =>
              /\ mwResponses[r] = <<>>
              /\ nextCalls[r] = IF mwPc[r] = "done" THEN 1 ELSE 0
              /\ mwPc[r] # "done" => reqUser[r] = Unset
              /\ mwPc[r] = "done" =>
                    IF Presented(r) /\ Verifies(r) /\ Found(r)
                    THEN LetThrough(r)
                    ELSE reqUser[r] = Null
        /\ mwReq[r].middleware = "authMiddlewareAllowUnverified" =>
              /\ nextCalls[r] + Len(mwResponses[r]) =
                    IF mwPc[r] = "done" THEN 1 ELSE 0
              /\ mwPc[r] # "done" => reqUser[r] = Unset
              /\ mwPc[r] = "done" =>
                    IF Presented(r) /\ Verifies(r) /\ Found(r)
                    THEN LetThrough(r)
                    ELSE Denied401(r)

\* C20 happens: optionalAuth passed a request with an expired token on as
\* anonymous, and authMiddlewareAllowUnverified let bob through
C20_Witness ==
    \E r, q \in Requests :
        /\ mwReq[r].middleware = "optionalAuth"
        /\ mwReq[r].header = "Bearer jwt-expired"
        /\ mwPc[r] = "done"
        /\ nextCalls[r] = 1
        /\ reqUser[r] = Null
        /\ mwReq[q].middleware = "authMiddlewareAllowUnverified"
        /\ LetThrough(q)
        /\ reqUser[q].id = "bob"
        /\ ~reqUser[q].emailVerified

\* the call of connectToDB made in this step, when the step is a call
ThisCall == dbCalls'[Len(dbCalls')]

\* C17: connectToDB never has two connects in flight, and connPromise never
\* holds a settled promise.  A call made while the connection is open
\* returns the connection and starts nothing; a call made while a connect
\* is in flight returns the promise of that connect and starts nothing; a
\* connect is started only when the connection is not open and connPromise
\* is null.  When the chain of a failed connect settles connPromise is
\* cleared, so the next call starts a new connect.
C17_ConnectOnce ==
    /\ [](/\ Cardinality(Connecting) <= 1
          /\ \A i \in Connecting : connPromise = i
          /\ connPromise # 0 => promises[connPromise] \in Pending
          /\ \A i \in DOMAIN promises :
                promises[i] = "rejected" => connPromise # i)
    /\ [][Len(dbCalls') > Len(dbCalls) =>
            /\ readyState = 1 =>
                  /\ ThisCall.returned = "connection"
                  /\ promises' = promises
            /\ Connecting # {} =>
                  /\ ThisCall.returned = "promise"
                  /\ ThisCall.promise \in Connecting
                  /\ promises' = promises
            /\ ThisCall.returned = "promise" =>
                  promises'[ThisCall.promise] \in Pending
            /\ promises' # promises =>
                  /\ readyState # 1
                  /\ connPromise = 0
                  /\ \A i \in DOMAIN promises : promises[i] \notin Pending
                  /\ promises' = Append(promises, "connecting")
                  /\ ThisCall = Returned("promise", Len(promises'))
                  /\ connPromise' = Len(promises')
            /\ (readyState # 1 /\ connPromise = 0 /\ uri # undefined) =>
                  Len(promises') = Len(promises) + 1]_vars
    /\ [][\A i \in DOMAIN promises :
            (promises[i] = "failed" /\ promises'[i] = "rejected") =>
                connPromise' = 0]_vars

\* C17 happens: two calls shared the first connect, it failed, and the
\* third call started a second connect
C17_Witness ==
    /\ promises = <<"rejected", "connecting">>
    /\ Len(dbCalls) = 3
    /\ dbCalls[1] = Returned("promise", 1)
    /\ dbCalls[2] = Returned("promise", 1)
    /\ dbCalls[3] = Returned("promise", 2)
    /\ connPromise = 2

=============================================================================
